---------------------------- MODULE Spec2Model ----------------------------
(***************************************************************************)
(* Model of the GitHub visualizer: the provider client (githubapi/         *)
(* services.py, githubapi/rate_limit.py), the public views (portfolio/     *)
(* views.py) and the ingest service (GitHubIngestService).                 *)
(*                                                                         *)
(* JSON values are records [k, n, s]: k is the kind ("absent" for a key    *)
(* that is not in the mapping, "null" for JSON null / Python None, "int",  *)
(* "str"), n the integer and s the string carried.                         *)
(***************************************************************************)
EXTENDS Integers, Sequences, FiniteSets, TLC

VARIABLES
    repoList,   \* provider: the repository list of the user looked up
    events,     \* provider: the public events of the user looked up
    handler,    \* the operation that ran last
    resp,       \* the provider's answers to the requests of that operation, in order
    now,        \* the clock read by it: [ms, day, sec]
    nreq,       \* HTTP requests issued by it
    outcome,    \* GitHubClient.get / get_pinned_repos: what the call returned or raised
    page,       \* views: the response to the browser
    stats,      \* get_user_stats: the mapping returned
    calendar,   \* get_contributions: the structure returned
    db,         \* the rows of UserProfile, GitHubSnapshot, Repository, CommitActivity,
                \* PortfolioHighlight
    upstream,   \* provider: the account of the authenticated user and the rate limit
    sync,       \* sync_all: the last run and the runs made in a row
    request     \* reorder_highlights: the user and the order[] values of the POST

vars == <<repoList, events, handler, resp, now, nreq, outcome, page, stats, calendar,
          db, upstream, sync, request>>

\* the variables of the ingest pipeline
storeVars == <<db, upstream, sync>>

---------------------------------------------------------------------------
(* JSON / Python values *)

Absent == [k |-> "absent", n |-> 0, s |-> ""]
Null == [k |-> "null", n |-> 0, s |-> ""]
JInt(i) == [k |-> "int", n |-> i, s |-> ""]
JStr(t) == [k |-> "str", n |-> 0, s |-> t]

Max(a, b) == IF a >= b THEN a ELSE b
Min(a, b) == IF a <= b THEN a ELSE b

\* int(x / d) for an integer quotient: Python's int() truncates toward zero
TruncDiv(x, d) == IF x >= 0 THEN x \div d ELSE -((-x) \div d)

---------------------------------------------------------------------------
(* Strings *)

Char(t, i) == SubSeq(t, i, i)

UpperChars == <<"A", "B", "C", "D", "E", "F", "G", "H", "I", "J", "K", "L", "M",
                "N", "O", "P", "Q", "R", "S", "T", "U", "V", "W", "X", "Y", "Z">>
LowerChars == <<"a", "b", "c", "d", "e", "f", "g", "h", "i", "j", "k", "l", "m",
                "n", "o", "p", "q", "r", "s", "t", "u", "v", "w", "x", "y", "z">>

LowerChar(c) ==
    IF \E i \in 1..26 : UpperChars[i] = c
    THEN LowerChars[CHOOSE i \in 1..26 : UpperChars[i] = c]
    ELSE c

\* str.lower()
RECURSIVE Lower(_)
Lower(t) == IF Len(t) = 0 THEN "" ELSE LowerChar(Char(t, 1)) \o Lower(SubSeq(t, 2, Len(t)))

\* needle in haystack
Contains(needle, hay) ==
    \E i \in 1..(Len(hay) - Len(needle) + 1) : SubSeq(hay, i, i + Len(needle) - 1) = needle

\* str.startswith
StartsWith(t, prefix) == Len(prefix) <= Len(t) /\ SubSeq(t, 1, Len(prefix)) = prefix

\* str.strip() for blanks
RECURSIVE Strip(_)
Strip(t) ==
    IF Len(t) = 0 THEN ""
    ELSE IF Char(t, 1) = " " THEN Strip(SubSeq(t, 2, Len(t)))
    ELSE IF Char(t, Len(t)) = " " THEN Strip(SubSeq(t, 1, Len(t) - 1))
    ELSE t

Digits == <<"0", "1", "2", "3", "4", "5", "6", "7", "8", "9">>
IsDigit(c) == \E i \in 1..10 : Digits[i] = c
DigitVal(c) == (CHOOSE i \in 1..10 : Digits[i] = c) - 1

\* int(text) for a string of decimal digits
RECURSIVE ParseInt(_)
ParseInt(t) ==
    IF Len(t) = 0 THEN 0
    ELSE 10 * ParseInt(SubSeq(t, 1, Len(t) - 1)) + DigitVal(Char(t, Len(t)))

---------------------------------------------------------------------------
(* githubapi/rate_limit.py *)

\* int(headers.get(name, 0)): a header is a decimal string, a missing one is 0
HeaderInt(h) == IF h.k = "absent" THEN 0 ELSE ParseInt(h.s)

\* RateLimitInfo.from_response; reset_time is kept as epoch seconds
from_response(r) ==
    [remaining |-> HeaderInt(r.remaining),
     limit |-> HeaderInt(r.limit),
     reset_time |-> HeaderInt(r.reset),
     used |-> HeaderInt(r.used)]

\* the earlier revision: every 403 counts as rate limiting
is_exceeded_any403(info) == TRUE

is_exceeded(info) == info.remaining <= 0

\* max(0, int((reset_time - now).total_seconds())), t the clock in milliseconds
get_reset_seconds(info, t) == Max(0, TruncDiv(info.reset_time * 1000 - t, 1000))

---------------------------------------------------------------------------
(* GitHubClient.get *)

API_BASE == "https://api.github.com"

NoExc == [cls |-> "", text |-> "", status |-> 0, has_response |-> FALSE]
Return(v) == [kind |-> "return", value |-> v, exc |-> NoExc]
Raise(e) == [kind |-> "raise", value |-> Null, exc |-> e]

\* raise Exception(f"GitHub API rate limit exceeded. Resets in ... seconds. Using u/l requests.")
RateLimitException(info, t) ==
    [cls |-> "Exception",
     text |-> "GitHub API rate limit exceeded. Resets in "
              \o ToString(get_reset_seconds(info, t)) \o " seconds. Using "
              \o ToString(info.used) \o "/" \o ToString(info.limit) \o " requests.",
     status |-> 0,
     has_response |-> FALSE]

\* requests.Response.raise_for_status: HTTPError for 4xx and 5xx, carrying the response
HTTPErrorOf(r, path) ==
    [cls |-> "HTTPError",
     text |-> ToString(r.status)
              \o (IF r.status < 500 THEN " Client Error: " ELSE " Server Error: ")
              \o r.reason \o " for url: " \o API_BASE \o path,
     status |-> r.status,
     has_response |-> TRUE]

\* session.get raised before any response arrived (connection failure, timeout)
TransportError ==
    [cls |-> "ConnectionError", text |-> "Connection aborted.", status |-> 0,
     has_response |-> FALSE]

\* GitHubClient.get for the provider's answer r to the one request it issues
Get(path, r, t) ==
    IF ~r.net THEN Raise(TransportError)
    ELSE IF r.status = 403 /\ is_exceeded(from_response(r))
         THEN Raise(RateLimitException(from_response(r), t))
    ELSE IF r.status >= 400 /\ r.status < 600 THEN Raise(HTTPErrorOf(r, path))
    ELSE Return(r.body)

\* requests.exceptions.RequestException and its subclasses
IsRequestException(e) == e.cls \in {"HTTPError", "ConnectionError"}

\* truth value of e.response: None is false, and bool(Response) is Response.ok
ResponseTruthy(e) == e.has_response /\ e.status < 400

---------------------------------------------------------------------------
(* portfolio/views.py: search_redirect *)

\* an empty stats mapping
NoStats == [reported |-> FALSE]

NoPage ==
    [kind |-> "none", template |-> "", title |-> "", message |-> "",
     reset_seconds |-> 0, reset_minutes |-> 0, target |-> "",
     user_stats |-> NoStats, repos |-> <<>>,
     contribution_weeks |-> <<>>, total_contributions |-> 0]
Render(template, title, message) ==
    [NoPage EXCEPT !.kind = "render", !.template = template, !.title = title,
                   !.message = message]
Redirect(username) == [NoPage EXCEPT !.kind = "redirect", !.target = username]
\* the exception leaves the view: the framework answers 500
Unhandled(e) == [NoPage EXCEPT !.kind = "unhandled", !.title = e.cls, !.message = e.text]

\* length of the run of digits of t that starts at position i
RECURSIVE DigitRun(_, _)
DigitRun(t, i) == IF i <= Len(t) /\ IsDigit(Char(t, i)) THEN 1 + DigitRun(t, i + 1) ELSE 0

\* positions where r"Resets in (\d+) seconds" matches
ResetMatches(t) ==
    {i \in 1..Len(t) :
        /\ StartsWith(SubSeq(t, i, Len(t)), "Resets in ")
        /\ DigitRun(t, i + 10) >= 1
        /\ StartsWith(SubSeq(t, i + 10 + DigitRun(t, i + 10), Len(t)), " seconds")}

\* re.search(r"Resets in (\d+) seconds", text), 0 when there is no match
ParseResetSeconds(t) ==
    IF ResetMatches(t) = {} THEN 0
    ELSE LET i == CHOOSE j \in ResetMatches(t) : \A m \in ResetMatches(t) : j <= m
         IN ParseInt(SubSeq(t, i + 10, i + 9 + DigitRun(t, i + 10)))

RateLimitPage(seconds) ==
    [NoPage EXCEPT !.kind = "render", !.template = "rate_limit.html",
                   !.reset_seconds = seconds, !.reset_minutes = seconds \div 60]

\* the RequestException handler of search_redirect
search_redirect_except(e, q) ==
    IF Contains("rate limit exceeded", Lower(e.text))
    THEN RateLimitPage(ParseResetSeconds(e.text))
    ELSE IF ResponseTruthy(e) /\ e.status = 404
    THEN Render("error.html", "User Not Found",
                "Could not find GitHub user '" \o q
                \o "'. Please check the username and try again.")
    ELSE Render("error.html", "GitHub API Error",
                "An error occurred while fetching user data. Please try again.")

search_redirect(raw, r, t) ==
    LET q == Strip(raw)
        o == Get("/users/" \o q, r, t)
    IN IF q = ""
       THEN Render("error.html", "Invalid Search", "Please enter a GitHub username to search.")
       ELSE IF o.kind = "return" THEN Redirect(q)
       ELSE IF IsRequestException(o.exc) THEN search_redirect_except(o.exc, q)
       ELSE Unhandled(o.exc)

---------------------------------------------------------------------------
(* Dates: datetime values are [day, sec], day counted from 1970-01-01 *)

SecondsPerDay == 86400

\* days from 1970-01-01 of the proleptic Gregorian date y-m-d
DaysFromCivil(y, m, d) ==
    LET yy == IF m <= 2 THEN y - 1 ELSE y
        era == yy \div 400
        yoe == yy - era * 400
        mp == IF m > 2 THEN m - 3 ELSE m + 9
        doy == (153 * mp + 2) \div 5 + d - 1
        doe == yoe * 365 + yoe \div 4 - yoe \div 100 + doy
    IN era * 146097 + doe - 719468

\* the date <<y, m, d>> of a day number
CivilFromDays(z) ==
    LET zz == z + 719468
        era == zz \div 146097
        doe == zz - era * 146097
        yoe == (doe - doe \div 1460 + doe \div 36524 - doe \div 146096) \div 365
        doy == doe - (365 * yoe + yoe \div 4 - yoe \div 100)
        mp == (5 * doy + 2) \div 153
        d == doy - (153 * mp + 2) \div 5 + 1
        m == IF mp < 10 THEN mp + 3 ELSE mp - 9
    IN <<(IF m <= 2 THEN yoe + era * 400 + 1 ELSE yoe + era * 400), m, d>>

Pad2(i) == IF i < 10 THEN "0" \o ToString(i) ELSE ToString(i)
Pad4(i) == IF i < 10 THEN "000" \o ToString(i)
           ELSE IF i < 100 THEN "00" \o ToString(i)
           ELSE IF i < 1000 THEN "0" \o ToString(i)
           ELSE ToString(i)

\* "%Y-%m-%d" of the date c = <<y, m, d>>
FormatCivil(c) == Pad4(c[1]) \o "-" \o Pad2(c[2]) \o "-" \o Pad2(c[3])

\* strftime("%Y-%m-%d")
FormatDate(day) == FormatCivil(CivilFromDays(day))

\* datetime.isoformat() of an aware UTC datetime without microseconds
IsoFormat(dt) ==
    FormatDate(dt.day) \o "T" \o Pad2(dt.sec \div 3600) \o ":"
    \o Pad2((dt.sec % 3600) \div 60) \o ":" \o Pad2(dt.sec % 60) \o "+00:00"

AllDigits(t) == \A i \in 1..Len(t) : IsDigit(Char(t, i))

DaysInMonth(y, m) ==
    IF m = 2 THEN (IF (y % 4 = 0 /\ y % 100 # 0) \/ y % 400 = 0 THEN 29 ELSE 28)
    ELSE IF m \in {4, 6, 9, 11} THEN 30 ELSE 31

\* value.replace("Z", "+00:00")
ReplaceZ(t) ==
    IF Len(t) > 0 /\ Char(t, Len(t)) = "Z" THEN SubSeq(t, 1, Len(t) - 1) \o "+00:00" ELSE t

\* does datetime.fromisoformat accept t (YYYY-MM-DDTHH:MM:SS+00:00)
IsIso(t) ==
    /\ Len(t) = 25
    /\ AllDigits(SubSeq(t, 1, 4)) /\ Char(t, 5) = "-"
    /\ AllDigits(SubSeq(t, 6, 7)) /\ Char(t, 8) = "-"
    /\ AllDigits(SubSeq(t, 9, 10)) /\ Char(t, 11) = "T"
    /\ AllDigits(SubSeq(t, 12, 13)) /\ Char(t, 14) = ":"
    /\ AllDigits(SubSeq(t, 15, 16)) /\ Char(t, 17) = ":"
    /\ AllDigits(SubSeq(t, 18, 19)) /\ SubSeq(t, 20, 25) = "+00:00"
    /\ ParseInt(SubSeq(t, 1, 4)) >= 1
    /\ ParseInt(SubSeq(t, 6, 7)) \in 1..12
    /\ ParseInt(SubSeq(t, 9, 10)) \in
           1..DaysInMonth(ParseInt(SubSeq(t, 1, 4)), ParseInt(SubSeq(t, 6, 7)))
    /\ ParseInt(SubSeq(t, 12, 13)) < 24
    /\ ParseInt(SubSeq(t, 15, 16)) < 60
    /\ ParseInt(SubSeq(t, 18, 19)) < 60

\* datetime.fromisoformat(t) for an accepted t
FromIso(t) ==
    [day |-> DaysFromCivil(ParseInt(SubSeq(t, 1, 4)), ParseInt(SubSeq(t, 6, 7)),
                           ParseInt(SubSeq(t, 9, 10))),
     sec |-> ParseInt(SubSeq(t, 12, 13)) * 3600 + ParseInt(SubSeq(t, 15, 16)) * 60
             + ParseInt(SubSeq(t, 18, 19))]

\* (a - b).days: timedelta normalises to 0 <= seconds < 86400, so days is the floor
DeltaDays(a, b) == ((a.day - b.day) * SecondsPerDay + (a.sec - b.sec)) \div SecondsPerDay

---------------------------------------------------------------------------
(* Repository payloads: records with the keys id, full_name, name,         *)
(* description, stargazers_count, forks_count, language, size, updated_at  *)

\* dict.get(key, 0)
GetOr0(v) == IF v.k = "absent" THEN JInt(0) ELSE v

\* truth value of a JSON value
Truthy(v) == (v.k = "int" /\ v.n # 0) \/ (v.k = "str" /\ v.s # "")

\* (value or "")
OrEmpty(v) == IF Truthy(v) THEN v.s ELSE ""

RECURSIVE SumSeq(_)
SumSeq(q) == IF q = <<>> THEN 0 ELSE Head(q) + SumSeq(Tail(q))

Take(q, n) == SubSeq(q, 1, Min(n, Len(q)))

\* the sort key (r.get("stargazers_count", 0), r.get("forks_count", 0))
KeyOf(r) == <<GetOr0(r.stargazers_count), GetOr0(r.forks_count)>>

\* tuple comparison: None against an int raises TypeError, at the first differing position
Comparable(a, b) == a[1].k = b[1].k /\ (a[1] = b[1] => a[2].k = b[2].k)

\* the order on the star counts alone
KeyLessByStars(a, b) == a[1].n < b[1].n

KeyLess(a, b) == a[1].n < b[1].n \/ (a[1].n = b[1].n /\ a[2].n < b[2].n)

\* sorted() raises TypeError iff two of the keys cannot be ordered: a comparison
\* sort has to compare the elements that end up next to each other
SortRaises(q) == \E i, j \in 1..Len(q) : ~Comparable(KeyOf(q[i]), KeyOf(q[j]))

\* x placed after every element whose key is not less than its own
RECURSIVE InsertDesc(_, _)
InsertDesc(sorted, x) ==
    IF sorted = <<>> THEN <<x>>
    ELSE IF KeyLess(KeyOf(Head(sorted)), KeyOf(x)) THEN <<x>> \o sorted
    ELSE <<Head(sorted)>> \o InsertDesc(Tail(sorted), x)

\* sorted(q, key=KeyOf, reverse=True): descending and stable
RECURSIVE SortedDesc(_)
SortedDesc(q) ==
    IF q = <<>> THEN <<>>
    ELSE InsertDesc(SortedDesc(SubSeq(q, 1, Len(q) - 1)), q[Len(q)])

\* repo.get("updated_at") is set and cannot be parsed
BadDate(r) == Truthy(r.updated_at) /\ ~IsIso(ReplaceZ(r.updated_at.s))

RecentDays == 90

\* repo.get("updated_at") and (now - fromisoformat(...)).days < 90
IsRecent(r, dt) ==
    /\ Truthy(r.updated_at)
    /\ IsIso(ReplaceZ(r.updated_at.s))
    /\ DeltaDays(dt, FromIso(ReplaceZ(r.updated_at.s))) < RecentDays

\* len([r for r in repos if recent(r)])
CountRecent(q, dt) == Cardinality({i \in 1..Len(q) : IsRecent(q[i], dt)})

\* the languages histogram's keys
LanguagesOf(q) == {q[i].language.s : i \in {j \in 1..Len(q) : Truthy(q[j].language)}}

---------------------------------------------------------------------------
(* GitHubClient.get_contributions *)

WindowDays == 365
WeekLen == 7
FallbackWeeks == 52

\* e.get("created_at", "")
CreatedAt(e) == IF e.created_at.k = "absent" THEN "" ELSE e.created_at.s

\* len([e for e in events if e.get("created_at", "").startswith(date)])
DayContributions(evs, date) ==
    Cardinality({i \in 1..Len(evs) : StartsWith(CreatedAt(evs[i]), date)})

\* the levels with the bounds 3 and 6 excluded from the lower bucket
ContributionLevelStrict(c) == IF c = 0 THEN 0 ELSE IF c < 3 THEN 1 ELSE IF c < 6 THEN 2 ELSE 3

ContributionLevel(c) == IF c = 0 THEN 0 ELSE IF c <= 3 THEN 1 ELSE IF c <= 6 THEN 2 ELSE 3

\* the dict appended to current_week
Cell(date, day_contributions) ==
    [date |-> date, count |-> day_contributions,
     level |-> ContributionLevel(day_contributions)]

DatedCell(evs, date) == Cell(date, DayContributions(evs, date))

DayCell(evs, day) == DatedCell(evs, FormatDate(day))

\* while len(current_week) < 7: the padding reads current_date, which it never advances,
\* so every padded cell is the same
RECURSIVE PadWith(_, _)
PadWith(week, cell) ==
    IF Len(week) < WeekLen THEN PadWith(Append(week, cell), cell) ELSE week

PadWeek(week, cur) == PadWith(week, [date |-> FormatDate(cur + 1), count |-> 0, level |-> 0])

\* the iterations of the day loop up to the next weeks.append: the week appended
\* and the value of current_date after it
RECURSIVE FillWeek(_, _, _, _)
WeekStep(evs, cur, today, w) ==
    IF Len(w) = WeekLen \/ cur = today
    THEN [days |-> PadWeek(w, cur), next |-> cur + 1]
    ELSE FillWeek(evs, cur + 1, today, w)

FillWeek(evs, cur, today, week) == WeekStep(evs, cur, today, Append(week, DayCell(evs, cur)))

\* while current_date <= today
RECURSIVE FillWeeks(_, _, _, _)
WeeksStep(evs, today, weeks, f) == FillWeeks(evs, f.next, today, Append(weeks, f.days))

FillWeeks(evs, cur, today, weeks) ==
    IF cur > today THEN weeks
    ELSE WeeksStep(evs, today, weeks, FillWeek(evs, cur, today, <<>>))

TotalCount(weeks) ==
    SumSeq([w \in 1..Len(weeks) |-> SumSeq([d \in 1..Len(weeks[w]) |-> weeks[w][d].count])])

\* the structure returned from the except branch
FallbackCalendar ==
    [built |-> FALSE,
     contribution_weeks |->
         [w \in 1..FallbackWeeks |->
             [d \in 1..WeekLen |-> [date |-> "", count |-> 0, level |-> 0]]],
     total_contributions |-> 0, current_streak |-> 0, longest_streak |-> 0]

\* get_contributions for the provider's answer rE to the events request, at the
\* moment dt; None.startswith (a null created_at) raises inside the try
BuiltCalendar(weeks) ==
    [built |-> TRUE, contribution_weeks |-> weeks,
     total_contributions |-> TotalCount(weeks),
     current_streak |-> 0, longest_streak |-> 0]

\* the body of the try for the outcome o of the events request
CalendarOf(o, dt) ==
    IF o.kind = "raise" THEN FallbackCalendar
    ELSE IF \E i \in 1..Len(o.value) : o.value[i].created_at.k = "null"
    THEN FallbackCalendar
    ELSE BuiltCalendar(FillWeeks(o.value, dt.day - WindowDays, dt.day, <<>>))

get_contributions(username, rE, t, dt) ==
    CalendarOf(Get("/users/" \o username \o "/events/public", rE, t), dt)

---------------------------------------------------------------------------
(* portfolio/views.py: public_viewer *)

ProjectKeywords ==
    [Frontend |-> {"web", "frontend", "react", "vue", "angular"},
     Backend |-> {"api", "backend", "server", "django", "flask"},
     Mobile |-> {"mobile", "ios", "android", "flutter", "react-native"},
     AIML |-> {"ml", "ai", "tensorflow", "pytorch", "machine-learning"},
     Data |-> {"data", "analytics", "visualization", "dashboard"}]

\* the lowered names and descriptions of the repositories
pv_texts(q) ==
    {Lower(OrEmpty(q[i].name)) : i \in 1..Len(q)}
    \cup {Lower(OrEmpty(q[i].description)) : i \in 1..Len(q)}

pv_project_types(q) ==
    LET texts == pv_texts(q)
    IN {t \in DOMAIN ProjectKeywords :
           \E kw \in ProjectKeywords[t] : \E x \in texts : Contains(kw, x)}

\* sum(int(repo.get(f, 0)) ...) inside try/except (TypeError, ValueError): 0 on failure
pv_total(q, f) ==
    IF \E i \in 1..Len(q) : GetOr0(q[i][f]).k = "null" THEN 0
    ELSE SumSeq([i \in 1..Len(q) |-> GetOr0(q[i][f]).n])

\* the first exception the unguarded part of the aggregation raises, "" if none
pv_error(q) ==
    IF SortRaises(q) THEN "TypeError"
    ELSE IF \E i \in 1..Len(q) : BadDate(q[i]) THEN "ValueError"
    ELSE IF \E i \in 1..Len(q) : GetOr0(q[i].forks_count).k = "null" THEN "TypeError"
    ELSE IF \E i \in 1..Len(q) : GetOr0(q[i].stargazers_count).k = "null" THEN "TypeError"
    ELSE ""

\* len([r for r in repos if r.get("forks_count", 0) > 0])
CountForked(q) == Cardinality({i \in 1..Len(q) : GetOr0(q[i].forks_count).n > 0})

\* len([r for r in repos if r.get("stargazers_count", 0) > bound])
CountStarsOver(q, bound) ==
    Cardinality({i \in 1..Len(q) : GetOr0(q[i].stargazers_count).n > bound})

pv_collaboration(q) ==
    Min(100, (pv_total(q, "forks_count") * 2 + CountForked(q) * 5) * 2)

\* the innovation base halved, without the cap
pv_innovation_uncapped(q) ==
    TruncDiv(pv_total(q, "stargazers_count") + CountStarsOver(q, 0) * 2
             + Cardinality(LanguagesOf(q)) * 5
             + Cardinality(pv_project_types(q)) * 10, 2)

\* min(100, int(innovation_base * 0.5))
pv_innovation(q) ==
    Min(100, TruncDiv(pv_total(q, "stargazers_count") + CountStarsOver(q, 0) * 2
                      + Cardinality(LanguagesOf(q)) * 5
                      + Cardinality(pv_project_types(q)) * 10, 2))

pv_consistency(q, dt) == Min(100, CountRecent(q, dt) * 10)

\* max(1, int(days / 365)), 1 when created_at is missing or cannot be parsed
pv_years(profile, dt) ==
    IF Truthy(profile.created_at) /\ IsIso(ReplaceZ(profile.created_at.s))
    THEN Max(1, TruncDiv(DeltaDays(dt, FromIso(ReplaceZ(profile.created_at.s))), 365))
    ELSE 1

pv_user_stats(profile, q, dt) ==
    [reported |-> TRUE,
     total_stars_received |-> pv_total(q, "stargazers_count"),
     total_forks_received |-> pv_total(q, "forks_count"),
     repository_count |-> Len(q),
     languages_count |-> Cardinality(LanguagesOf(q)),
     recent_activity |-> CountRecent(q, dt),
     project_diversity |-> pv_project_types(q),
     collaboration_score |-> pv_collaboration(q),
     innovation_score |-> pv_innovation(q),
     consistency_score |-> pv_consistency(q, dt),
     years_experience |-> pv_years(profile, dt)]

\* the profile substituted when get_public_user raises
DefaultProfile(username, dt) ==
    [login |-> JStr(username), bio |-> Null, followers |-> JInt(0),
     created_at |-> JStr(IsoFormat(dt))]

TopCount == 8

\* the outer except requests.exceptions.RequestException of public_viewer
public_viewer_except(e, username) ==
    IF Contains("rate limit exceeded", Lower(e.text))
    THEN Render("error.html", "Rate Limit Exceeded",
                "The GitHub API rate limit has been exceeded. Please try again later.")
    ELSE IF ResponseTruthy(e) /\ e.status = 404
    THEN Render("error.html", "User Not Found",
                "Could not find GitHub user '" \o username
                \o "'. Please check the username and try again.")
    ELSE Render("error.html", "GitHub API Error",
                "An error occurred while fetching user data. Please try again.")

\* public_viewer for the provider's answers to the profile and repository requests
public_viewer(username, rU, rR, rE, t, dt) ==
    LET oU == Get("/users/" \o username, rU, t)
        oR == Get("/users/" \o username \o "/repos", rR, t)
        c == get_contributions(username, rE, t, dt)
        profile == IF oU.kind = "return" THEN oU.value ELSE DefaultProfile(username, dt)
        q == IF oR.kind = "return" THEN oR.value ELSE <<>>
        e == [cls |-> pv_error(q), text |-> "", status |-> 0, has_response |-> FALSE]
    IN IF e.cls # ""
       THEN (IF IsRequestException(e) THEN public_viewer_except(e, username)
             ELSE Unhandled(e))
       ELSE [NoPage EXCEPT !.kind = "render", !.template = "public_card_simple.html",
                           !.target = profile.login.s,
                           !.user_stats = pv_user_stats(profile, q, dt),
                           !.repos = Take(SortedDesc(q), TopCount),
                           !.contribution_weeks = c.contribution_weeks,
                           !.total_contributions = c.total_contributions]

\* requests public_viewer issues: the events request follows a completed aggregation
pv_requests(rR, t) ==
    IF Get("/repos", rR, t).kind = "return" /\ pv_error(Get("/repos", rR, t).value) # ""
    THEN 2 ELSE 3

---------------------------------------------------------------------------
(* GitHubClient.get_user_stats *)

\* does the accumulation loop or the project-diversity loop raise for q
gus_raises(q) ==
    \E i \in 1..Len(q) :
        \/ GetOr0(q[i].stargazers_count).k = "null"
        \/ GetOr0(q[i].forks_count).k = "null"
        \/ (Truthy(q[i].language) /\ GetOr0(q[i].size).k = "null")
        \* repo.get("name", "").lower() on None
        \/ q[i].name.k = "null"
        \* repo.get("description", "").lower() is reached unless both
        \* "web" and "api" are found in the name
        \/ /\ q[i].description.k = "null"
           /\ ~(Contains("web", Lower(q[i].name.s)) /\ Contains("api", Lower(q[i].name.s)))

gus_project_types(q) ==
    LET nm(i) == Lower(q[i].name.s)
        ds(i) == Lower(q[i].description.s)
        I == 1..Len(q)
    IN (IF \E i \in I : Contains("web", nm(i)) \/ Contains("frontend", ds(i))
        THEN {"Frontend"} ELSE {})
       \cup (IF \E i \in I : Contains("api", nm(i)) \/ Contains("backend", ds(i))
             THEN {"Backend"} ELSE {})
       \cup (IF \E i \in I : Contains("mobile", nm(i)) \/ Contains("app", nm(i))
             THEN {"Mobile"} ELSE {})
       \cup (IF \E i \in I : Contains("ml", nm(i)) \/ Contains("ai", nm(i))
             THEN {"AI/ML"} ELSE {})
       \cup (IF \E i \in I : Contains("data", nm(i)) THEN {"Data Science"} ELSE {})

gus_total(q, f) == SumSeq([i \in 1..Len(q) |-> GetOr0(q[i][f]).n])

gus_collaboration(q) ==
    IF gus_total(q, "stargazers_count") > 0 \/ gus_total(q, "forks_count") > 0
    THEN Min(100, (gus_total(q, "forks_count") * 2 + CountForked(q)) * 5)
    ELSE 0

gus_innovation(q) ==
    IF gus_total(q, "stargazers_count") > 0 \/ gus_total(q, "forks_count") > 0
    THEN Min(100, (gus_total(q, "stargazers_count")
                   + CountStarsOver(q, 10)) * 2)
    ELSE 0

gus_consistency(q, dt) ==
    IF gus_total(q, "stargazers_count") > 0 \/ gus_total(q, "forks_count") > 0
    THEN Min(100, CountRecent(q, dt) * 10)
    ELSE 0

\* max(1, int(days // 365)), 1 when created_at cannot be parsed
gus_years(profile, dt) ==
    IF IsIso(ReplaceZ(profile.created_at.s))
    THEN Max(1, DeltaDays(dt, FromIso(ReplaceZ(profile.created_at.s))) \div 365)
    ELSE 1

\* get_user_stats for the provider's answers to its two requests; the mapping
\* is empty ({}) whenever anything raised
get_user_stats(username, rU, rR, t, dt) ==
    LET oU == Get("/users/" \o username, rU, t)
        oR == Get("/users/" \o username \o "/repos", rR, t)
        q == oR.value
    IN IF oU.kind = "raise" \/ oR.kind = "raise" THEN NoStats
       ELSE IF gus_raises(q) THEN NoStats
       \* user_data.get("created_at", "").replace on None
       ELSE IF oU.value.created_at.k = "null" THEN NoStats
       ELSE [reported |-> TRUE,
             total_stars_received |-> gus_total(q, "stargazers_count"),
             total_forks_received |-> gus_total(q, "forks_count"),
             repository_count |-> Len(q),
             languages_count |-> Cardinality(LanguagesOf(q)),
             recent_activity |-> CountRecent(q, dt),
             project_diversity |-> gus_project_types(q),
             collaboration_score |-> gus_collaboration(q),
             innovation_score |-> gus_innovation(q),
             consistency_score |-> gus_consistency(q, dt),
             years_experience |-> gus_years(oU.value, dt)]

\* requests get_user_stats issues: the repository request follows a profile that arrived
gus_requests(rU, t) == IF Get("/users/", rU, t).kind = "raise" THEN 1 ELSE 2

---------------------------------------------------------------------------
(* GitHubClient.get_pinned_repos *)

PinnedCount == 6

get_pinned_repos(username, r, t) ==
    LET o == Get("/users/" \o username \o "/repos", r, t)
    IN IF o.kind = "raise" THEN o
       ELSE IF SortRaises(o.value)
       THEN Raise([cls |-> "TypeError", text |-> "", status |-> 0, has_response |-> FALSE])
       ELSE Return(Take(SortedDesc(o.value), PinnedCount))

---------------------------------------------------------------------------
(* The provider and the clock *)

Reason(status) ==
    CASE status = 403 -> "Forbidden"
      [] status = 404 -> "Not Found"
      [] status = 500 -> "Internal Server Error"
      [] OTHER -> "OK"

Reply(status, remaining, quota, reset, body) ==
    [net |-> TRUE, status |-> status, reason |-> Reason(status),
     remaining |-> remaining, limit |-> quota.limit, reset |-> reset,
     used |-> quota.used, body |-> body]

\* no response: the connection failed or the 20 s timeout passed
NoReply ==
    [net |-> FALSE, status |-> 0, reason |-> "", remaining |-> Absent, limit |-> Absent,
     reset |-> Absent, used |-> Absent, body |-> Null]

Statuses == {200, 403, 404, 500}
RemainingHeaders == {Absent, JStr("0"), JStr("7")}
ResetHeaders == {Absent, JStr("90"), JStr("130")}
QuotaHeaders == {[used |-> Absent, limit |-> Absent], [used |-> JStr("60"), limit |-> JStr("60")],
                 [used |-> JStr("53"), limit |-> JStr("60")]}

\* every answer the provider can give with payload body
Replies(body) ==
    {Reply(st, rem, qt, rst, body) :
        st \in Statuses, rem \in RemainingHeaders, qt \in QuotaHeaders, rst \in ResetHeaders}
    \cup {NoReply}

Ok(body) == Reply(200, JStr("7"), [used |-> JStr("53"), limit |-> JStr("60")], JStr("130"), body)

\* the answers that take the views down their different paths
ViewReplies(body) ==
    {Ok(body),
     Reply(403, JStr("0"), [used |-> JStr("60"), limit |-> JStr("60")], JStr("130"), Null),
     Reply(403, JStr("7"), [used |-> JStr("53"), limit |-> JStr("60")], JStr("130"), body),
     Reply(404, JStr("7"), [used |-> JStr("53"), limit |-> JStr("60")], JStr("130"), body),
     Reply(500, Absent, [used |-> Absent, limit |-> Absent], Absent, body),
     NoReply}

\* the moments a handler runs at: ms is the clock in milliseconds on the scale of
\* the reset header, day and sec the same moment as a UTC date and time of day
Clocks ==
    {[ms |-> 100000, day |-> DaysFromCivil(2024, 6, 30), sec |-> 43200],
     [ms |-> 129500, day |-> DaysFromCivil(2025, 3, 1), sec |-> 0]}

Usernames == {"octocat"}
Queries == {"", "  ", " octocat", "octocat"}

UserPayload ==
    [login |-> JStr("octocat"), bio |-> Null, followers |-> JInt(3),
     created_at |-> JStr("2020-01-15T08:30:00Z")]

\* the answers to the profile request: one of them has a null created_at
ProfileReplies ==
    ViewReplies(UserPayload) \cup {Ok([UserPayload EXCEPT !.created_at = Null])}

Exhausted ==
    Reply(403, JStr("0"), [used |-> JStr("60"), limit |-> JStr("60")], JStr("130"), Null)

\* the answers to a follow-up request with payload body
FollowReplies(body) == {Ok(body), Exhausted, NoReply}

Repo(id, name, description, stars, forks, language, size, updated_at) ==
    [id |-> id, full_name |-> JStr("octocat/" \o name.s), name |-> name,
     description |-> description, stargazers_count |-> stars, forks_count |-> forks,
     language |-> language, size |-> size, updated_at |-> updated_at]

\* the repositories the user looked up may have
ViewerRepos ==
    {Repo(JInt(1), JStr("WebApp"), JStr("A React frontend"), JInt(250), JInt(10),
          JStr("Python"), JInt(40), JStr("2024-06-20T10:00:00Z")),
     Repo(JInt(2), JStr("notes"), Null, JInt(0), JInt(0),
          Null, JInt(3), JStr("2023-12-13T09:00:00Z")),
     Repo(JInt(3), JStr("ml-data"), JStr(""), Absent, Absent,
          JStr("Go"), JInt(7), JStr("2024-04-01T12:00:00Z")),
     Repo(JInt(4), JStr("web-api"), JStr("Flask backend"), JInt(11), JInt(60),
          JStr("Python"), Absent, JStr("2024-04-01T12:00:01Z")),
     Repo(JInt(5), JStr("sketch"), JStr("drafts"), Null, JInt(1),
          JStr("C"), JInt(2), JStr("yesterday")),
     Repo(JInt(6), JStr("mirror"), JStr("imported"), JInt(-5), JInt(-1),
          JStr("Go"), JInt(9), Absent)}

---------------------------------------------------------------------------
(* GitHubIngestService: the rows of the local database and the pipeline     *)

Users == {"alice", "bob"}

\* self.user.social_auth.get(provider="github").extra_data.get("access_token"):
\* None ("" here) when the account has no linked identity (the lookup raises),
\* when extra_data has no token, or when the stored token is empty
get_user_token(identity) == IF identity = "token" THEN "gho_linked" ELSE ""

\* access_token or self._get_user_token()
ResolveToken(access_token, identity) ==
    IF access_token # "" THEN access_token ELSE get_user_token(identity)

\* no token lets sync_all return at once
TokenFalsyNever(token) == FALSE

\* a token that lets sync_all return at once
TokenFalsy(token) == token = ""

\* the state of a pipeline run: the rows, the requests issued, the exception
\* that ended the run ("" while it runs)
Run(rows, requests, exc) == [db |-> rows, nreq |-> requests, exc |-> exc]

\* the provider's answer to the next request of a run: the rate limit is used up
\* once budget requests were answered
ReplyFor(requests, budget, body) == IF requests >= budget THEN Exhausted ELSE Ok(body)

\* (value or 0)
OrZero(v) == IF Truthy(v) THEN v.n ELSE 0

CountChar(t, c) == Cardinality({i \in 1..Len(t) : Char(t, i) = c})

RECURSIVE FindChar(_, _, _)
FindChar(t, c, i) == IF Char(t, i) = c THEN i ELSE FindChar(t, c, i + 1)

\* owner_name, repo_name = full_name.split("/") for a full_name with one "/"
OwnerName(full_name) == SubSeq(full_name, 1, FindChar(full_name, "/", 1) - 1)
RepoName(full_name) == SubSeq(full_name, FindChar(full_name, "/", 1) + 1, Len(full_name))

\* _parse_dt: None ([day |-> 0, sec |-> -1] here) for a missing or unparsable value
NoDate == [day |-> 0, sec |-> 0 - 1]
parse_dt(v) ==
    IF Truthy(v) /\ v.k = "str" /\ IsIso(ReplaceZ(v.s)) THEN FromIso(ReplaceZ(v.s)) ELSE NoDate

\* GET /repos/{owner}/{repo}/languages: the bytes per language, as pairs
LanguagesOfRepo(full_name) ==
    IF full_name = "octocat/a" THEN {<<"Python", 1200>>, <<"Shell", 40>>} ELSE {}

\* does GET /repos/{owner}/{repo}/languages fail
LanguagesFail(full_name) == full_name = "octocat/b"

Week(week, is_list, days, total) ==
    [week |-> week, is_list |-> is_list, days |-> days, total |-> total]

\* GET /repos/{owner}/{repo}/stats/commit_activity: octocat/a lists one week
\* twice and ends with a week whose timestamp is null and one more week; the
\* other repositories have one week without timestamp and with a null total
ActivityOfRepo(full_name) ==
    IF full_name = "octocat/a"
    THEN <<Week(JInt(1717286400), TRUE, <<1, 0, 2>>, JInt(3)),
           Week(JInt(1717891200), FALSE, <<>>, JInt(4)),
           Week(JInt(1717286400), FALSE, <<>>, JInt(9)),
           Week(Null, FALSE, <<>>, JInt(2)),
           Week(JInt(1718496000), FALSE, <<>>, JInt(5))>>
    ELSE <<Week(Absent, FALSE, <<>>, Null)>>

\* datetime.date.fromtimestamp(week.get("week", 0)) as a day number, the host
\* running on UTC
WeekStart(w) == IF w.week.k = "absent" THEN 0 ELSE w.week.n \div SecondsPerDay

\* sum(days) if days is a list else week.get("total", 0), then (commits or 0)
WeekCommits(w) == IF w.is_list THEN SumSeq(w.days) ELSE OrZero(w.total)

\* an upsert that adds the commits to those of the row found
UpsertActivityAdding(acts, user, repo_id, week, commits) ==
    {r \in acts : ~(r.owner = user /\ r.repo = repo_id /\ r.week = week)}
    \cup {[owner |-> user, repo |-> repo_id, week |-> week,
           commits |-> commits
               + SumSeq([i \in 1..Cardinality({r \in acts : r.owner = user /\ r.repo = repo_id
                                                            /\ r.week = week}) |->
                           (CHOOSE r \in acts : r.owner = user /\ r.repo = repo_id
                                                /\ r.week = week).commits])]}

\* CommitActivity.objects.update_or_create(owner, repo, week, defaults={commits})
\* for rows without another owner's row for (repo, week)
UpsertActivity(acts, user, repo_id, week, commits) ==
    {r \in acts : ~(r.owner = user /\ r.repo = repo_id /\ r.week = week)}
    \cup {[owner |-> user, repo |-> repo_id, week |-> week, commits |-> commits]}

\* unique_together (repo, week): the create of update_or_create raises IntegrityError
ActivityConflict(acts, user, repo_id, week) ==
    \E r \in acts : r.repo = repo_id /\ r.week = week /\ r.owner # user

\* for week in activity: ... inside try/except Exception: the loop ends at the
\* first week that raises (a null timestamp, a conflicting row)
RECURSIVE SyncWeeks(_, _, _, _)
SyncWeeks(acts, user, repo_id, weeks) ==
    IF weeks = <<>> THEN acts
    ELSE IF Head(weeks).week.k = "null" THEN acts
    ELSE IF ActivityConflict(acts, user, repo_id, WeekStart(Head(weeks))) THEN acts
    ELSE SyncWeeks(UpsertActivity(acts, user, repo_id, WeekStart(Head(weeks)),
                                  WeekCommits(Head(weeks))),
                   user, repo_id, Tail(weeks))

\* the defaults of Repository.objects.update_or_create(repo_id=...)
RepositoryRow(user, data, languages, is_pinned) ==
    [repo_id |-> data.id.n, owner |-> user,
     name |-> IF Truthy(data.name) THEN data.name.s ELSE RepoName(data.full_name.s),
     full_name |-> data.full_name.s,
     description |-> OrEmpty(data.description),
     stargazers_count |-> OrZero(data.stargazers_count),
     forks_count |-> OrZero(data.forks_count),
     language_primary |-> OrEmpty(data.language),
     languages |-> languages,
     updated_at |-> parse_dt(data.updated_at),
     is_pinned |-> is_pinned]

\* Repository.objects.update_or_create(repo_id=row.repo_id, defaults=row)
UpsertRepository(repos, row) == {r \in repos : r.repo_id # row.repo_id} \cup {row}

\* the provider's answer to the languages request of one repository
RepoReply(fails, requests, budget, body) ==
    IF fails THEN Reply(500, JStr("7"), [used |-> JStr("53"), limit |-> JStr("60")],
                        JStr("130"), Null)
    ELSE ReplyFor(requests, budget, body)

\* _upsert_repo letting a failed languages request end the run
WriteRepositoryOrRaise(st, user, data, is_pinned, oL) ==
    IF oL.kind = "raise" THEN Run(st.db, st.nreq + 1, oL.exc.cls)
    ELSE Run([st.db EXCEPT !.repositories =
                 UpsertRepository(@, RepositoryRow(user, data, oL.value, is_pinned))],
             st.nreq + 1, "")

\* _upsert_repo from update_or_create on, for the outcome oL of the languages request
WriteRepository(st, user, data, is_pinned, oL) ==
    Run([st.db EXCEPT !.repositories =
            UpsertRepository(@, RepositoryRow(user, data,
                                              IF oL.kind = "raise" THEN {} ELSE oL.value,
                                              is_pinned))],
        st.nreq + 1, "")

LanguagesStep(st, user, data, is_pinned, budget) ==
    WriteRepository(st, user, data, is_pinned,
                    Get("/repos/" \o OwnerName(data.full_name.s) \o "/"
                        \o RepoName(data.full_name.s) \o "/languages",
                        RepoReply(LanguagesFail(data.full_name.s), st.nreq, budget,
                                  LanguagesOfRepo(data.full_name.s)), 0))

\* the commit-activity block of _upsert_repo for the outcome oA of its request
SyncActivity(st, user, data, oA) ==
    Run(IF oA.kind = "raise" THEN st.db
        ELSE [st.db EXCEPT !.activities = SyncWeeks(@, user, data.id.n, oA.value)],
        st.nreq + 1, "")

ActivityStep(st, user, data, budget) ==
    SyncActivity(st, user, data,
                 Get("/repos/" \o OwnerName(data.full_name.s) \o "/"
                     \o RepoName(data.full_name.s) \o "/stats/commit_activity",
                     ReplyFor(st.nreq, budget, ActivityOfRepo(data.full_name.s)), 0))

\* _upsert_repo: a payload without id or full_name is skipped, a full_name that
\* does not split in two raises ValueError
upsert_repo(st, user, data, is_pinned, budget) ==
    IF ~Truthy(data.id) \/ ~Truthy(data.full_name) THEN st
    ELSE IF CountChar(data.full_name.s, "/") # 1 THEN Run(st.db, st.nreq, "ValueError")
    ELSE ActivityStep(LanguagesStep(st, user, data, is_pinned, budget), user, data, budget)

\* for repo in repos: self._upsert_repo(repo, is_pinned)
RECURSIVE UpsertEach(_, _, _, _, _)
UpsertEach(st, user, repos, is_pinned, budget) ==
    IF repos = <<>> \/ st.exc # "" THEN st
    ELSE UpsertEach(upsert_repo(st, user, Head(repos), is_pinned, budget),
                    user, Tail(repos), is_pinned, budget)

\* a pass that takes a failed list request for an empty list
SyncListQuiet(st, user, is_pinned, budget, o) ==
    IF o.kind = "raise" THEN Run(st.db, st.nreq + 1, "")
    ELSE UpsertEach(Run(st.db, st.nreq + 1, ""), user, o.value, is_pinned, budget)

\* a pass of _sync_repos over the outcome o of its list request
SyncList(st, user, is_pinned, budget, o) ==
    IF o.kind = "raise" THEN Run(st.db, st.nreq + 1, o.exc.cls)
    ELSE UpsertEach(Run(st.db, st.nreq + 1, ""), user, o.value, is_pinned, budget)

\* the second pass of _sync_repos: the full list, is_pinned=False
FullListStep(st, user, username, repos, budget) ==
    IF st.exc # "" THEN st
    ELSE SyncList(st, user, FALSE, budget,
                  Get("/users/" \o username \o "/repos",
                      ReplyFor(st.nreq, budget, repos), 0))

\* _sync_repos: the pinned pass, then the full list
sync_repos(st, user, username, repos, budget) ==
    IF ~Truthy(username) THEN st
    ELSE FullListStep(SyncList(st, user, TRUE, budget,
                               get_pinned_repos(username.s,
                                                ReplyFor(st.nreq, budget, repos), 0)),
                      user, username.s, repos, budget)

\* the profile step keeping only the newest snapshot
ProfileStepLatest(rows, user, data) ==
    [rows EXCEPT !.profiles[user] =
                     [exists |-> TRUE, github_username |-> OrEmpty(data.login),
                      bio |-> OrEmpty(data.bio), followers |-> OrZero(data.followers)],
                 !.snapshots = <<[user |-> user, raw_profile |-> data]>>]

\* _upsert_profile and GitHubSnapshot.objects.create
ProfileStep(rows, user, data) ==
    [rows EXCEPT !.profiles[user] =
                     [exists |-> TRUE, github_username |-> OrEmpty(data.login),
                      bio |-> OrEmpty(data.bio), followers |-> OrZero(data.followers)],
                 !.snapshots = Append(@, [user |-> user, raw_profile |-> data])]

\* sync_all after the token check, for the outcome o of get_user
SyncUser(rows, user, repos, budget, o) ==
    IF o.kind = "raise" THEN Run(rows, 1, o.exc.cls)
    ELSE sync_repos(Run(ProfileStep(rows, user, o.value), 1, ""), user, o.value.login,
                    repos, budget)

\* GitHubIngestService(user, access_token).sync_all() on the rows, the provider
\* holding the profile and the repositories and answering budget requests
sync_all(rows, user, token, profile, repos, budget) ==
    IF TokenFalsy(token) THEN Run(rows, 0, "")
    ELSE SyncUser(rows, user, repos, budget,
                  Get("/user", ReplyFor(0, budget, profile), 0))

NoProfile == [exists |-> FALSE, github_username |-> "", bio |-> "", followers |-> 0]

\* an empty database
NoRows ==
    [profiles |-> [u \in Users |-> NoProfile], snapshots |-> <<>>,
     repositories |-> {}, activities |-> {}, highlights |-> {}]

\* the Repository and CommitActivity rows
Tables(rows) == [repositories |-> rows.repositories, activities |-> rows.activities]

\* no run was made; runs counts the runs made in a row by one caller on one
\* upstream state, once holds the tables as the first of them left them
NoSync ==
    [user |-> "", token |-> "", exc |-> "", runs |-> 0, once |-> Tables(NoRows),
     calls |-> 0]

\* the payload of GET /user
ProfileOf(up) == [UserPayload EXCEPT !.login = up.login]

\* the repositories the authenticated user may hold: one that was edited
\* upstream, one whose languages request fails and whose name is
\* null, one whose full_name has no "/", one without an id
SyncRepos ==
    {Repo(JInt(1), JStr("a"), JStr("first"), JInt(5), JInt(1), JStr("Python"), JInt(1),
          JStr("2024-06-20T10:00:00Z")),
     Repo(JInt(1), JStr("a"), Null, JInt(7), Absent, Null, JInt(1), JStr("yesterday")),
     [Repo(JInt(2), JStr("b"), JStr("second"), Absent, JInt(3), JStr("Go"), JInt(1), Absent)
         EXCEPT !.name = Null],
     [Repo(JInt(3), JStr("n"), Null, JInt(0), JInt(0), Null, JInt(1), Absent)
         EXCEPT !.full_name = JStr("noslash")],
     Repo(Null, JStr("z"), Null, JInt(2), JInt(0), Null, JInt(1), Absent)}

\* the identities an account may have: no linked identity, one without a token
\* in extra_data, one with an empty token, one with a token
Identities == {"none", "bare", "empty", "token"}

\* the access_token argument of GitHubIngestService: "" stands for None, which
\* is what the dashboard passes
AccessTokens == {"", "gho_passed"}

\* requests the provider answers before the rate limit is used up
FullBudget == 99
Budgets == {0, 1, 3, FullBudget}

MaxSyncRepos == 2
MaxSyncs == 3

---------------------------------------------------------------------------
(* portfolio/views.py: reorder_highlights *)

\* does int(t) accept t: digits with an optional sign, blanks around them ignored
IntAccepts(t) ==
    /\ Strip(t) # ""
    /\ IF Char(Strip(t), 1) \in {"+", "-"}
       THEN Len(Strip(t)) > 1 /\ AllDigits(SubSeq(Strip(t), 2, Len(Strip(t))))
       ELSE AllDigits(Strip(t))

\* int(t) for an accepted t
IntOf(t) ==
    IF Char(Strip(t), 1) = "-" THEN 0 - ParseInt(SubSeq(Strip(t), 2, Len(Strip(t))))
    ELSE IF Char(Strip(t), 1) = "+" THEN ParseInt(SubSeq(Strip(t), 2, Len(Strip(t))))
    ELSE ParseInt(Strip(t))

\* the lookup without its user filter
HighlightFoundAnyUser(hs, user, highlight_id) ==
    IntAccepts(highlight_id) /\ \E h \in hs : h.id = IntOf(highlight_id)

\* PortfolioHighlight.objects.get(id=int(highlight_id), user=request.user) finds a row
HighlightFound(hs, user, highlight_id) ==
    IntAccepts(highlight_id) /\ \E h \in hs : h.id = IntOf(highlight_id) /\ h.user = user

\* ph.order = idx; ph.save(update_fields=["order"])
SaveOrder(hs, key, idx) ==
    {IF h.id = key THEN [h EXCEPT !.order = idx] ELSE h : h \in hs}

\* for idx, highlight_id in enumerate(order), from position idx on: a value that
\* int() rejects or that names no highlight of the user is passed over
RECURSIVE ReorderFrom(_, _, _, _)
ReorderFrom(hs, user, order, idx) ==
    IF idx >= Len(order) THEN hs
    ELSE IF HighlightFound(hs, user, order[idx + 1])
    THEN ReorderFrom(SaveOrder(hs, IntOf(order[idx + 1]), idx), user, order, idx + 1)
    ELSE ReorderFrom(hs, user, order, idx + 1)

\* the highlights after reorder_highlights; the response is always {"ok": true}
reorder_highlights(hs, user, order) == ReorderFrom(hs, user, order, 0)

\* the order[] values a browser may post: ids, one of them with a blank, and a word
OrderValues == {"1", " 2", "3", "x"}

\* the order values the admin site gives a new highlight: the default and another
AdminOrders == {0, 5}

MaxHighlights == 3
MaxOrderLen == 3

MaxRepos == 2
BulkSize == 11

NoOutcome == [kind |-> "none", value |-> Null, exc |-> NoExc]
NoCalendar ==
    [built |-> FALSE, contribution_weeks |-> <<>>, total_contributions |-> 0,
     current_streak |-> 0, longest_streak |-> 0]
NoClock == [ms |-> 0, day |-> 0, sec |-> 0]
NoRequest == [user |-> "", order |-> <<>>]

Init ==
    /\ repoList = <<>>
    /\ events = <<>>
    /\ handler = "none"
    /\ resp = <<>>
    /\ now = NoClock
    /\ nreq = 0
    /\ outcome = NoOutcome
    /\ page = NoPage
    /\ stats = NoStats
    /\ calendar = NoCalendar
    /\ db = NoRows
    /\ upstream = [login |-> JStr("octocat"), repos |-> <<>>, budget |-> FullBudget]
    /\ sync = NoSync
    /\ request = NoRequest

\* nothing is being handled: the results of the last operation are dropped
Idle ==
    /\ handler' = "none"
    /\ resp' = <<>>
    /\ now' = NoClock
    /\ nreq' = 0
    /\ outcome' = NoOutcome
    /\ page' = NoPage
    /\ stats' = NoStats
    /\ calendar' = NoCalendar
    /\ request' = NoRequest

\* the user looked up gains a repository
ProviderAddRepo ==
    /\ handler = "none"
    /\ Len(repoList) < MaxRepos
    /\ \E r \in ViewerRepos : repoList' = Append(repoList, r)
    /\ Idle
    /\ UNCHANGED <<events, storeVars>>

\* the user looked up is one with many repositories of the same kind
ProviderBulkRepos ==
    /\ handler = "none"
    /\ repoList = <<>>
    /\ \E r \in ViewerRepos : repoList' = [i \in 1..BulkSize |-> r]
    /\ Idle
    /\ UNCHANGED <<events, storeVars>>

\* the request has been answered
Finish ==
    /\ handler # "none"
    /\ Idle
    /\ UNCHANGED <<repoList, events, storeVars>>

\* a call of GitHubClient.get for the repository list
ClientGet ==
    /\ handler = "none"
    /\ \E r \in Replies(repoList), t \in Clocks :
        /\ handler' = "get"
        /\ resp' = <<r>>
        /\ now' = t
        /\ nreq' = 1
        /\ outcome' = Get("/users/octocat/repos", r, t.ms)
        /\ page' = NoPage
        /\ stats' = NoStats
        /\ calendar' = NoCalendar
        /\ request' = NoRequest
        /\ UNCHANGED <<repoList, events, storeVars>>

\* GET /search?q=raw
SearchRedirect ==
    /\ handler = "none"
    /\ \E raw \in Queries, r \in ProfileReplies, t \in Clocks :
        /\ handler' = "search_redirect"
        /\ resp' = IF Strip(raw) = "" THEN <<>> ELSE <<r>>
        /\ now' = t
        /\ nreq' = IF Strip(raw) = "" THEN 0 ELSE 1
        /\ outcome' = NoOutcome
        /\ page' = search_redirect(raw, r, t.ms)
        /\ stats' = NoStats
        /\ calendar' = NoCalendar
        /\ request' = NoRequest
        /\ UNCHANGED <<repoList, events, storeVars>>

\* GET /u/username
PublicViewer ==
    /\ handler = "none"
    /\ \E username \in Usernames, t \in Clocks, rU \in ProfileReplies,
          rR \in FollowReplies(repoList), rE \in FollowReplies(events) :
        /\ handler' = "public_viewer"
        /\ resp' = SubSeq(<<rU, rR, rE>>, 1, pv_requests(rR, t.ms))
        /\ now' = t
        /\ nreq' = pv_requests(rR, t.ms)
        /\ outcome' = NoOutcome
        /\ page' = public_viewer(username, rU, rR, rE, t.ms, t)
        /\ stats' = NoStats
        /\ calendar' = NoCalendar
        /\ request' = NoRequest
        /\ UNCHANGED <<repoList, events, storeVars>>

\* a call of GitHubClient.get_user_stats, as compare_users makes it
GetUserStats ==
    /\ handler = "none"
    /\ \E username \in Usernames, t \in Clocks, rU \in ProfileReplies,
          rR \in FollowReplies(repoList) :
        /\ handler' = "get_user_stats"
        /\ resp' = SubSeq(<<rU, rR>>, 1, gus_requests(rU, t.ms))
        /\ now' = t
        /\ nreq' = gus_requests(rU, t.ms)
        /\ outcome' = NoOutcome
        /\ page' = NoPage
        /\ stats' = get_user_stats(username, rU, rR, t.ms, t)
        /\ calendar' = NoCalendar
        /\ request' = NoRequest
        /\ UNCHANGED <<repoList, events, storeVars>>

\* the (stars, forks) profiles of the repositories offered for pinning: two tie
\* on stars, one has no star count, one has a null star count
PinnedKinds ==
    {[stars |-> JInt(10), forks |-> JInt(2)],
     [stars |-> JInt(10), forks |-> JInt(5)],
     [stars |-> Absent, forks |-> JInt(1)],
     [stars |-> Null, forks |-> JInt(0)]}

MaxPinnedRepos == 7

\* the user gains a repository, identified by its position in the list
PinnedAddRepo ==
    /\ handler = "none"
    /\ Len(repoList) < MaxPinnedRepos
    /\ \E k \in PinnedKinds :
        repoList' = Append(repoList,
                           Repo(JInt(Len(repoList) + 1), JStr("r"), Null, k.stars, k.forks,
                                Null, JInt(1), Absent))
    /\ Idle
    /\ UNCHANGED <<events, storeVars>>

\* a call of GitHubClient.get_pinned_repos
GetPinnedRepos ==
    /\ handler = "none"
    /\ \E r \in {Ok(repoList), Exhausted} :
        /\ handler' = "get_pinned_repos"
        /\ resp' = <<r>>
        /\ now' = NoClock
        /\ nreq' = 1
        /\ outcome' = get_pinned_repos("octocat", r, 0)
        /\ page' = NoPage
        /\ stats' = NoStats
        /\ calendar' = NoCalendar
        /\ request' = NoRequest
        /\ UNCHANGED <<repoList, events, storeVars>>

\* the created_at values of the events in the public feed, newest first; the
\* events without a timestamp come last
EventStamps ==
    <<JStr("2024-07-01T00:00:00Z"), JStr("2024-06-30T08:15:00Z"),
      JStr("2023-07-01T00:00:00Z"), JStr("2023-06-30T23:59:59Z"), Absent, Null>>

MaxEvents == 7

Event(created_at) == [type |-> JStr("PushEvent"), created_at |-> created_at]

\* the position of the stamp of the last event of the feed, 1 for an empty feed
LastStamp(evs) ==
    IF evs = <<>> THEN 1
    ELSE CHOOSE k \in 1..Len(EventStamps) : EventStamps[k] = evs[Len(evs)].created_at

\* an older event appears at the end of the user's public feed
ProviderAddEvent ==
    /\ handler = "none"
    /\ Len(events) < MaxEvents
    /\ \E k \in LastStamp(events)..Len(EventStamps) :
        events' = Append(events, Event(EventStamps[k]))
    /\ Idle
    /\ UNCHANGED <<repoList, storeVars>>

\* a call of GitHubClient.get_contributions
GetContributions ==
    /\ handler = "none"
    /\ \E r \in {Ok(events), Exhausted}, t \in Clocks :
        /\ handler' = "get_contributions"
        /\ resp' = <<r>>
        /\ now' = t
        /\ nreq' = 1
        /\ outcome' = NoOutcome
        /\ page' = NoPage
        /\ stats' = NoStats
        /\ calendar' = get_contributions("octocat", r, t.ms, t)
        /\ request' = NoRequest
        /\ UNCHANGED <<repoList, events, storeVars>>

\* the history of runs made in a row ends when something they depend on changes
SyncInterrupted == sync' = [sync EXCEPT !.runs = 0, !.once = Tables(NoRows)]

\* the authenticated user gains a repository
ProviderPublish ==
    /\ handler = "none"
    /\ Len(upstream.repos) < MaxSyncRepos
    /\ \E r \in SyncRepos : upstream' = [upstream EXCEPT !.repos = Append(@, r)]
    /\ SyncInterrupted
    /\ UNCHANGED <<repoList, events, resp, now, nreq, outcome, page, stats, calendar, request,
                   handler, db>>

\* before the first run: the rate limit leaves another number of requests to a run
ProviderLimit ==
    /\ handler = "none"
    /\ sync.calls = 0
    /\ \E b \in Budgets \ {upstream.budget} : upstream' = [upstream EXCEPT !.budget = b]
    /\ UNCHANGED <<repoList, events, resp, now, nreq, outcome, page, stats, calendar, request,
                   handler, db, sync>>

\* before the first run: GET /user starts or stops to carry a login
ProviderLogin ==
    /\ handler = "none"
    /\ sync.calls = 0
    /\ upstream' = [upstream EXCEPT !.login = IF @ = Null THEN JStr("octocat") ELSE Null]
    /\ UNCHANGED <<repoList, events, resp, now, nreq, outcome, page, stats, calendar, request,
                   handler, db, sync>>

\* is a run by u with this token one more run in a row
RunRepeats(u, token) == sync.runs > 0 /\ sync.user = u /\ sync.token = token

\* the state after a run r of sync_all for user u with the token resolved
SyncResult(u, token, r) ==
    /\ handler' = "sync_all"
    /\ nreq' = r.nreq
    /\ db' = r.db
    /\ sync' = [user |-> u, token |-> token, exc |-> r.exc,
                runs |-> IF RunRepeats(u, token) THEN sync.runs + 1 ELSE 1,
                once |-> IF RunRepeats(u, token) THEN sync.once ELSE Tables(r.db),
                calls |-> sync.calls + 1]

SyncRun(u, token) ==
    SyncResult(u, token,
               sync_all(db, u, token, ProfileOf(upstream), upstream.repos, upstream.budget))

\* GitHubIngestService(u, access_token).sync_all(), as the dashboard view runs it,
\* u having the linked identity i at that time
SyncAll ==
    /\ handler = "none"
    /\ sync.calls < MaxSyncs
    /\ \E u \in Users, access_token \in AccessTokens, i \in Identities :
        SyncRun(u, ResolveToken(access_token, i))
    /\ UNCHANGED <<repoList, events, resp, now, outcome, page, stats, calendar, request, upstream>>

\* the admin site adds a highlight for a user
AdminAddHighlight ==
    /\ handler = "none"
    /\ Cardinality(db.highlights) < MaxHighlights
    /\ \E u \in Users, o \in AdminOrders :
        db' = [db EXCEPT !.highlights =
                  @ \cup {[id |-> Cardinality(@) + 1, user |-> u, repo |-> 1,
                           title |-> "t" \o ToString(Cardinality(@) + 1), blurb |-> "",
                           order |-> o]}]
    /\ Idle
    /\ UNCHANGED <<repoList, events, upstream, sync>>

\* the order[] lists with n values
OrderLists(n) == [1..n -> OrderValues]

\* POST /reorder/ by a logged-in user
ReorderHighlights ==
    /\ handler = "none"
    /\ \E u \in Users, n \in 0..MaxOrderLen : \E order \in OrderLists(n) :
        /\ handler' = "reorder_highlights"
        /\ request' = [user |-> u, order |-> order]
        /\ db' = [db EXCEPT !.highlights = reorder_highlights(@, u, order)]
        /\ page' = [NoPage EXCEPT !.kind = "json", !.message = "ok"]
    /\ resp' = <<>>
    /\ now' = NoClock
    /\ nreq' = 0
    /\ outcome' = NoOutcome
    /\ stats' = NoStats
    /\ calendar' = NoCalendar
    /\ UNCHANGED <<repoList, events, upstream, sync>>

Next ==
    \/ ProviderAddRepo
    \/ ProviderBulkRepos
    \/ ClientGet
    \/ SearchRedirect
    \/ PublicViewer
    \/ GetUserStats
    \/ Finish

Spec == Init /\ [][Next]_vars

NextPinned ==
    \/ PinnedAddRepo
    \/ GetPinnedRepos
    \/ Finish

\* the provider's list grows while get_pinned_repos is called on it
SpecPinned == Init /\ [][NextPinned]_vars

NextSync ==
    \/ ProviderPublish
    \/ ProviderLimit
    \/ ProviderLogin
    \/ SyncAll
    \/ Finish

\* the provider and the accounts change while the dashboard runs the pipeline
SpecSync == Init /\ [][NextSync]_vars

NextHighlights ==
    \/ AdminAddHighlight
    \/ ReorderHighlights
    \/ Finish

\* highlights are added on the admin site while their users reorder them
SpecHighlights == Init /\ [][NextHighlights]_vars

NextCalendar ==
    \/ ProviderAddEvent
    \/ GetContributions
    \/ Finish

\* the user's feed grows while get_contributions is called on it
SpecCalendar == Init /\ [][NextCalendar]_vars

---------------------------------------------------------------------------
(* Properties of the client and the views *)

\* the X-RateLimit-Remaining header of r says the budget is used up
RemainingExhausted(r) == r.remaining.k = "absent" \/ ParseInt(r.remaining.s) <= 0

\* r is a response with status 403 and an exhausted rate limit
IsRateLimited(r) == r.net /\ r.status = 403 /\ RemainingExhausted(r)

\* milliseconds from the clock reading t to the reset named by r, 0 if that is past
MsToReset(r, t) ==
    Max(0, (IF r.reset.k = "absent" THEN 0 ELSE ParseInt(r.reset.s)) * 1000 - t.ms)

QuotaText(r) ==
    "Using " \o (IF r.used.k = "absent" THEN "0" ELSE r.used.s) \o "/"
    \o (IF r.limit.k = "absent" THEN "0" ELSE r.limit.s) \o " requests."

\* C1: GitHubClient.get issues one request; a 403 with an exhausted rate limit
\* raises the rate-limit failure (not an HTTPError) carrying the whole seconds
\* to the reset, never negative, and the used/limit counts; any other 4xx/5xx
\* raises an HTTPError with the status; anything else returns the payload.
C1_GetContract ==
    (handler = "get" /\ resp[1].net) =>
        /\ nreq = 1
        /\ IF IsRateLimited(resp[1])
           THEN /\ outcome.kind = "raise"
                /\ outcome.exc.cls # "HTTPError"
                /\ ~IsRequestException(outcome.exc)
                /\ Contains("rate limit exceeded", Lower(outcome.exc.text))
                /\ ParseResetSeconds(outcome.exc.text) >= 0
                /\ ParseResetSeconds(outcome.exc.text) * 1000 <= MsToReset(resp[1], now)
                /\ MsToReset(resp[1], now) < (ParseResetSeconds(outcome.exc.text) + 1) * 1000
                /\ Contains(QuotaText(resp[1]), outcome.exc.text)
           ELSE IF resp[1].status >= 400 /\ resp[1].status <= 599
           THEN /\ outcome.kind = "raise"
                /\ outcome.exc.cls = "HTTPError"
                /\ outcome.exc.status = resp[1].status
           ELSE /\ outcome.kind = "return"
                /\ outcome.value = resp[1].body

\* a rate-limited call whose message carries a positive delay and the counts
C1_Witness ==
    /\ handler = "get"
    /\ IsRateLimited(resp[1])
    /\ resp[1].used.k = "str"
    /\ outcome.kind = "raise"
    /\ ParseResetSeconds(outcome.exc.text) = 30

\* C2: on the public viewer path a rate-limited lookup of the username is
\* answered with the rate-limit message: rate_limit.html from search_redirect,
\* "Rate Limit Exceeded" from public_viewer.
C2_RateLimitRendered ==
    /\ (handler = "search_redirect" /\ nreq = 1 /\ IsRateLimited(resp[1])) =>
           (page.kind = "render" /\ page.template = "rate_limit.html")
    /\ (handler = "public_viewer" /\ IsRateLimited(resp[1])) =>
           (page.kind = "render" /\ page.title = "Rate Limit Exceeded")

\* C3: on the public viewer path a 404 answer to the lookup of the username is
\* answered with the "User Not Found" message.
C3_NotFoundRendered ==
    (handler \in {"search_redirect", "public_viewer"} /\ nreq >= 1
     /\ resp[1].net /\ resp[1].status = 404) =>
        (page.kind = "render" /\ page.title = "User Not Found")

\* no repository of q has a negative star or fork count
NonNegativeCounts(q) ==
    \A i \in 1..Len(q) :
        /\ (q[i].stargazers_count.k = "int" => q[i].stargazers_count.n >= 0)
        /\ (q[i].forks_count.k = "int" => q[i].forks_count.n >= 0)

\* the three scores of the stats mapping s lie in 0..100
ScoresInRange(s) ==
    /\ s.collaboration_score \in 0..100
    /\ s.innovation_score \in 0..100
    /\ s.consistency_score \in 0..100

ScoresZero(s) ==
    s.collaboration_score = 0 /\ s.innovation_score = 0 /\ s.consistency_score = 0

\* the stats mapping the finished operation reports, NoStats if it reports none
ReportedStats ==
    IF handler = "public_viewer" /\ page.kind = "render" THEN page.user_stats
    ELSE IF handler = "get_user_stats" THEN stats
    ELSE NoStats

\* C5: for a repository list without negative star or fork counts, the
\* collaboration, innovation and consistency scores reported by public_viewer
\* and by get_user_stats lie in 0..100, and are all 0 when the stats are
\* computed from zero repositories.
C5_ScoresBounded ==
    (ReportedStats.reported /\ NonNegativeCounts(repoList)) =>
        /\ ScoresInRange(ReportedStats)
        /\ (ReportedStats.repository_count = 0 => ScoresZero(ReportedStats))

\* public_viewer reports a clamped innovation score next to an unclamped
\* collaboration score
C5_Witness ==
    /\ handler = "public_viewer"
    /\ NonNegativeCounts(repoList)
    /\ page.user_stats.reported
    /\ page.user_stats.repository_count = Len(repoList)
    /\ page.user_stats.total_stars_received > 200
    /\ page.user_stats.innovation_score = 100
    /\ page.user_stats.collaboration_score = 50

\* C6: when the profile and the repository list arrive, the aggregation completes
\* and reports stats over the whole list, whatever fields of its records are
\* absent, null or unparsable: public_viewer renders the card and
\* get_user_stats returns a non-empty mapping.
C6_AggregationTotal ==
    /\ (handler = "public_viewer" /\ resp[2].net /\ resp[2].status = 200) =>
           /\ page.kind = "render"
           /\ page.user_stats.reported
           /\ page.user_stats.repository_count = Len(repoList)
    /\ (handler = "get_user_stats" /\ nreq = 2 /\ resp[1].body.created_at.k = "str"
        /\ resp[2].net /\ resp[2].status = 200) =>
           /\ stats.reported
           /\ stats.repository_count = Len(repoList)

\* a count as the sort key reads it: 0 when the key is missing
CountOf(v) == IF v.k = "int" THEN v.n ELSE 0

\* repository a is ahead of b in the order on (stars, forks)
PairGreater(a, b) ==
    \/ CountOf(a.stargazers_count) > CountOf(b.stargazers_count)
    \/ /\ CountOf(a.stargazers_count) = CountOf(b.stargazers_count)
       /\ CountOf(a.forks_count) > CountOf(b.forks_count)

NoNullCounts(q) ==
    \A i \in 1..Len(q) : q[i].stargazers_count.k # "null" /\ q[i].forks_count.k # "null"

\* C7: for a list of n repositories that arrived, get_pinned_repos returns
\* min(6, n) different repositories of the list, none of them followed by one
\* with a greater (stars, forks) pair (a missing count reads as 0), and no
\* repository left out has a greater pair than one that is returned.
C7_PinnedSelection ==
    (handler = "get_pinned_repos" /\ resp[1].status = 200 /\ NoNullCounts(repoList)) =>
        /\ outcome.kind = "return"
        /\ Len(outcome.value) = Min(6, Len(repoList))
        /\ \A i \in 1..Len(outcome.value) : \E j \in 1..Len(repoList) :
               outcome.value[i] = repoList[j]
        /\ \A i, j \in 1..Len(outcome.value) :
               i < j => /\ outcome.value[i] # outcome.value[j]
                        /\ ~PairGreater(outcome.value[j], outcome.value[i])
        /\ \A j \in 1..Len(repoList), i \in 1..Len(outcome.value) :
               (\A m \in 1..Len(outcome.value) : outcome.value[m] # repoList[j])
                   => ~PairGreater(repoList[j], outcome.value[i])

\* seven repositories arrived, the last one ties on stars with the first and
\* has more forks: it is returned first and a repository without stars is left out
C7_Witness ==
    /\ handler = "get_pinned_repos"
    /\ outcome.kind = "return"
    /\ Len(repoList) = 7
    /\ Len(outcome.value) = 6
    /\ outcome.value[1] = repoList[7]
    /\ outcome.value[2] = repoList[1]
    /\ \E j \in 1..7 : repoList[j].stargazers_count.k = "absent"
                       /\ \A m \in 1..6 : outcome.value[m] # repoList[j]

\* the day the window of the calendar starts on
WindowStart == now.day - WindowDays

\* the number of cells the day loop fills before the padding starts
FilledCells == WindowDays + 1

\* the cell at position g of the grid, read week by week
GridCell(g) == calendar.contribution_weeks[((g - 1) \div 7) + 1][((g - 1) % 7) + 1]

\* C8: a calendar built from the events that arrived has 52 or 53 weeks of 7
\* cells whose dates, read in grid order, are consecutive calendar days
\* starting with the first day of the window, the cells after today having
\* count 0 and level 0.
C8_GridDates ==
    (handler = "get_contributions" /\ calendar.built) =>
        /\ Len(calendar.contribution_weeks) \in {52, 53}
        /\ \A w \in 1..Len(calendar.contribution_weeks) :
               Len(calendar.contribution_weeks[w]) = 7
        /\ \A g \in 1..(7 * Len(calendar.contribution_weeks)) :
               /\ GridCell(g).date = FormatDate(WindowStart + g - 1)
               /\ g > FilledCells => (GridCell(g).count = 0 /\ GridCell(g).level = 0)

\* the days the events of the feed are dated on, 0 for an event without a date
EventDays ==
    [i \in 1..Len(events) |->
        IF events[i].created_at.k = "str" /\ IsIso(ReplaceZ(events[i].created_at.s))
        THEN FromIso(ReplaceZ(events[i].created_at.s)).day ELSE 0]

\* the number of events dated on a day
EventsOn(days, day) == Cardinality({i \in 1..Len(days) : days[i] = day})

\* the level a count is shown with
LevelOf(c) == IF c = 0 THEN 0 ELSE IF c <= 3 THEN 1 ELSE IF c <= 6 THEN 2 ELSE 3

\* C9: in a built calendar every cell the day loop filled counts the events
\* dated on its day, with level 0 for 0, 1 for 1..3, 2 for 4..6 and 3 from 7 on,
\* and total_contributions is the sum of the cell counts, which is the number
\* of events dated inside the window.
C9_CountsAndLevels ==
    (handler = "get_contributions" /\ calendar.built) =>
        LET days == EventDays
        IN /\ \A g \in 1..FilledCells :
                  /\ GridCell(g).count = EventsOn(days, WindowStart + g - 1)
                  /\ GridCell(g).level = LevelOf(GridCell(g).count)
           /\ calendar.total_contributions
                  = SumSeq([w \in 1..Len(calendar.contribution_weeks) |->
                               SumSeq([d \in 1..7 |->
                                          calendar.contribution_weeks[w][d].count])])
           /\ calendar.total_contributions
                  = Cardinality({i \in 1..Len(days) : days[i] \in WindowStart..now.day})

\* six events dated today give today's cell level 2, and the seventh event,
\* dated before the window, is not counted
C9_Witness ==
    /\ handler = "get_contributions"
    /\ calendar.built
    /\ Len(events) = 7
    /\ GridCell(FilledCells).count = 6
    /\ GridCell(FilledCells).level = 2
    /\ calendar.total_contributions = 6

\* no two Repository rows share a repo_id, no two CommitActivity rows a (repo, week)
UniqueKeys(rows) ==
    /\ \A r1, r2 \in rows.repositories : r1.repo_id = r2.repo_id => r1 = r2
    /\ \A a1, a2 \in rows.activities : (a1.repo = a2.repo /\ a1.week = a2.week) => a1 = a2

\* C4: when sync_all has run twice or more in a row for one account, the
\* provider answering alike, the Repository rows and the CommitActivity rows
\* are those the first of the runs left, field by field, with one Repository
\* row per repo id and one CommitActivity row per (repo, week).
C4_Idempotent ==
    (handler = "sync_all" /\ sync.runs >= 2) =>
        /\ Tables(db) = sync.once
        /\ UniqueKeys(db)

\* a second run in a row that completed over two repositories, one of which
\* has commit rows another account wrote
C4_Witness ==
    /\ handler = "sync_all"
    /\ sync.runs = 2
    /\ sync.exc = ""
    /\ sync.token # ""
    /\ Cardinality(db.repositories) = 2
    /\ \A r \in db.repositories : r.owner = sync.user
    /\ \E a \in db.activities : a.owner # sync.user /\ a.commits = 9

\* C10: a run of sync_all without a resolvable token issues no request, raises
\* nothing and leaves the UserProfile, GitHubSnapshot, Repository and
\* CommitActivity rows as they were.
C10_NoTokenNoOp ==
    [][(handler = "none" /\ handler' = "sync_all" /\ sync'.token = "") =>
           (nreq' = 0 /\ sync'.exc = "" /\ db' = db)]_vars

\* a run without a token by an account whose earlier run stored rows
C10_Witness ==
    /\ handler = "sync_all"
    /\ sync.token = ""
    /\ nreq = 0
    /\ db.profiles[sync.user].exists
    /\ \E r \in db.repositories : r.owner = sync.user
    /\ \E a \in db.activities : a.owner = sync.user

\* C11: a run of sync_all for one account leaves every Repository row and
\* every CommitActivity row owned by another account as it was, also when
\* both accounts are given the same provider repo id.
C11_OtherOwnersUntouched ==
    [][(handler = "none" /\ handler' = "sync_all") =>
           /\ \A r \in db.repositories : r.owner # sync'.user => r \in db'.repositories
           /\ \A a \in db.activities : a.owner # sync'.user => a \in db'.activities]_vars

\* the highlights of user u
HighlightsOf(u) == {h \in db.highlights : h.user = u}

\* C12: after a reorder_highlights request the order values of the requesting
\* user's n highlights are exactly 0..n-1, each taken once, whatever list was
\* submitted.
C12_DenseRanking ==
    handler = "reorder_highlights" =>
        /\ {h.order : h \in HighlightsOf(request.user)}
               = 0..(Cardinality(HighlightsOf(request.user)) - 1)
        /\ \A g, h \in HighlightsOf(request.user) : g.order = h.order => g = h

\* the 0-based positions of the submitted list that name highlight key
PositionsOf(order, key) ==
    {i \in 0..(Len(order) - 1) : IntAccepts(order[i + 1]) /\ IntOf(order[i + 1]) = key}

\* the highlight g after a request of user ordered as order
Reordered(g, user, order) ==
    IF g.user = user /\ PositionsOf(order, g.id) # {}
    THEN [g EXCEPT !.order = CHOOSE i \in PositionsOf(order, g.id) :
                                 \A j \in PositionsOf(order, g.id) : j <= i]
    ELSE g

\* C20: a reorder_highlights request of user U changes only the order field of
\* the highlights of U that the submitted list names, each to the last position
\* naming it, so values that are invalid or belong to others do not stop the
\* ones after them; all other rows and fields stay, and the answer is ok.
C20_ReorderFrame ==
    [][(handler = "none" /\ handler' = "reorder_highlights") =>
           /\ db'.highlights
                  = {Reordered(g, request'.user, request'.order) : g \in db.highlights}
           /\ [db' EXCEPT !.highlights = {}] = [db EXCEPT !.highlights = {}]
           /\ page'.kind = "json" /\ page'.message = "ok"
           /\ UNCHANGED <<repoList, events, upstream, sync>>]_vars

\* a request naming a word, then another user's highlight, then an own one
C20_Witness ==
    /\ handler = "reorder_highlights"
    /\ Len(request.order) = 3
    /\ ~IntAccepts(request.order[1])
    /\ \E g, h \in db.highlights :
        /\ g.user # request.user /\ PositionsOf(request.order, g.id) = {1}
        /\ g.order = 5
        /\ h.user = request.user /\ PositionsOf(request.order, h.id) = {2}
        /\ h.order = 2

\* a run of sync_all that went through all its steps, every request answered
SyncCompleted ==
    /\ handler = "sync_all"
    /\ sync.exc = ""
    /\ sync.token # ""
    /\ Truthy(upstream.login)
    /\ upstream.budget = FullBudget

\* the pinned subset the run derives from the provider's list, in its order
PinnedList == get_pinned_repos(upstream.login.s, Ok(upstream.repos), 0).value

PinnedSubset == {PinnedList[i] : i \in 1..Len(PinnedList)}

\* the payloads of the provider's list that _upsert_repo stores
Storable(repos) == {repos[i] : i \in {j \in 1..Len(repos) : Truthy(repos[j].id) /\ Truthy(repos[j].full_name)}}

\* C13: after a completed run the rows of the pinned subset are stored with
\* is_pinned = true and the rows of the rest of the list with is_pinned = false.
C13_PinnedFlagged ==
    SyncCompleted =>
        \A data \in Storable(upstream.repos) :
            \E r \in db.repositories :
                /\ r.repo_id = data.id.n
                /\ r.is_pinned = (data \in PinnedSubset)

\* the repositories of q whose count field f is at least 1
CountAtLeastOne(q, f) == Cardinality({i \in 1..Len(q) : CountOf(q[i][f]) >= 1})

\* the three scores by the stated formulas, from the totals the mapping s reports
FormulaScores(q, s) ==
    [collaboration_score |->
         Min(100, (CountAtLeastOne(q, "forks_count") * 5 + s.total_forks_received * 2) * 2),
     innovation_score |->
         Min(100, (s.total_stars_received + CountAtLeastOne(q, "stargazers_count") * 2
                   + s.languages_count * 5 + Cardinality(s.project_diversity) * 10) \div 2),
     consistency_score |-> Min(100, s.recent_activity * 10)]

\* C14: on both paths that report them, public_viewer and get_user_stats, the
\* collaboration, innovation and consistency scores equal the stated formulas
\* over the repository list.
C14_ScoresByFormula ==
    (ReportedStats.reported /\ NoNullCounts(repoList) /\ NonNegativeCounts(repoList)) =>
        LET s == ReportedStats
            f == FormulaScores(repoList, s)
        IN  /\ s.collaboration_score = f.collaboration_score
            /\ s.innovation_score = f.innovation_score
            /\ s.consistency_score = f.consistency_score

\* every payload of the list with an id and a full name has its full name in
\* the form owner/name
WellFormed(repos) ==
    \A data \in Storable(repos) : CountChar(data.full_name.s, "/") = 1

\* the Repository rows the last run's account holds for the payload data
RowsOf(data) ==
    {r \in db.repositories : r.repo_id = data.id.n /\ r.owner = sync.user}

\* is the languages request for the i-th repository of the pinned pass refused
\* by the rate limit: two requests precede the pass, two are made per repository
LanguagesRefused(i) ==
    2 + 2 * Cardinality({j \in 1..(i - 1) : PinnedList[j] \in Storable(upstream.repos)})
        >= upstream.budget

\* C15: a run whose languages and commit-activity requests fail, for any of the
\* repositories, still upserts every repository that has an id and a full
\* name, a failed languages request leaving an empty mapping, and it ends
\* without raising when its other requests are answered.
C15_BestEffortFetches ==
    (handler = "sync_all" /\ sync.token # "" /\ Truthy(upstream.login)
     /\ WellFormed(upstream.repos) /\ upstream.budget > 1) =>
        /\ upstream.budget = FullBudget => sync.exc = ""
        /\ \A data \in Storable(upstream.repos) :
               /\ RowsOf(data) # {}
               /\ LanguagesFail(data.full_name.s) => \E r \in RowsOf(data) : r.languages = {}
        /\ \A i \in 1..Len(PinnedList) :
               (PinnedList[i] \in Storable(upstream.repos) /\ LanguagesRefused(i)) =>
                   \E r \in RowsOf(PinnedList[i]) : r.languages = {}

\* a completed run over a repository whose languages request failed, then one
\* whose commit activity failed on a week record
C15_Witness ==
    /\ SyncCompleted
    /\ Len(upstream.repos) = 2
    /\ LanguagesFail(upstream.repos[1].full_name.s)
    /\ \E r \in db.repositories :
           r.repo_id = upstream.repos[1].id.n /\ r.languages = {} /\ r.owner = sync.user
    /\ \E r \in db.repositories :
           /\ r.repo_id = upstream.repos[2].id.n /\ r.languages # {} /\ r.owner = sync.user
           /\ Cardinality({a \in db.activities : a.repo = r.repo_id /\ a.owner = sync.user})
                  \in 1..(Len(ActivityOfRepo(r.full_name)) - 1)

\* the repositories the pinned pass of a run upserts, counted with repeats
PinnedStored ==
    Cardinality({i \in 1..Len(PinnedList) : PinnedList[i] \in Storable(upstream.repos)})

\* the request for the pinned subset (the 2nd of a run) or the one for the full
\* list (the 3rd after those of the pinned pass) is refused by the rate limit
ListRefused ==
    \/ upstream.budget = 1
    \/ upstream.budget > 1 /\ upstream.budget < 3 + 2 * PinnedStored

\* C16: a run whose request for a repository list fails ends with that failure
\* raised to the caller, makes no request and no write after it, and leaves
\* what it stored before: the profile, the snapshot it appended, and the rows
\* of the pinned pass when it was the full list that failed.
C16_ListFailureAborts ==
    [][(handler = "none" /\ handler' = "sync_all" /\ sync'.token # ""
        /\ Truthy(upstream.login) /\ WellFormed(upstream.repos) /\ ListRefused) =>
           /\ sync'.exc # ""
           /\ nreq' = IF upstream.budget = 1 THEN 2 ELSE 3 + 2 * PinnedStored
           /\ db'.profiles[sync'.user].exists
           /\ db'.profiles[sync'.user].github_username = upstream.login.s
           /\ db'.snapshots = Append(db.snapshots, [user |-> sync'.user,
                                                    raw_profile |-> ProfileOf(upstream)])
           /\ upstream.budget = 1 => Tables(db') = Tables(db)
           /\ \A data \in Storable(upstream.repos) :
                  upstream.budget > 1 =>
                      \E r \in db'.repositories :
                          r.repo_id = data.id.n /\ r.owner = sync'.user /\ r.is_pinned]_vars

\* a run that stored two repositories in its pinned pass and was refused the
\* full list
C16_Witness ==
    /\ handler = "sync_all"
    /\ sync.exc # ""
    /\ upstream.budget = 3
    /\ nreq = 7
    /\ Cardinality(db.repositories) = 2
    /\ \A r \in db.repositories : r.owner = sync.user /\ r.is_pinned
    /\ Len(db.snapshots) > 0

\* C17: a completed run over a list of N repositories, each with an id and a
\* full name, issues exactly 2N + 2 requests.
C17_RequestCount ==
    (SyncCompleted /\ Len(upstream.repos) >= 1 /\ WellFormed(upstream.repos)
     /\ Cardinality(Storable(upstream.repos)) = Len(upstream.repos)) =>
        nreq = 2 * Len(upstream.repos) + 2

\* C18: a run whose profile request is answered appends one snapshot with the
\* raw payload, also when its first repository request is refused, and upserts
\* the profile; a run whose profile request fails, or that has no token,
\* leaves snapshots and profiles alone; no step changes or drops a snapshot.
C18_SnapshotsAppendOnly ==
    [][/\ SubSeq(db'.snapshots, 1, Len(db.snapshots)) = db.snapshots
       /\ (handler = "none" /\ handler' = "sync_all") =>
              IF sync'.token # "" /\ upstream.budget > 0
              THEN /\ db'.snapshots = Append(db.snapshots,
                                             [user |-> sync'.user,
                                              raw_profile |-> ProfileOf(upstream)])
                   /\ db'.profiles[sync'.user].exists
                   /\ \A u \in Users \ {sync'.user} : db'.profiles[u] = db.profiles[u]
              ELSE db'.snapshots = db.snapshots /\ db'.profiles = db.profiles]_vars

\* a third snapshot, of an account that has an older one, below another account's
C18_Witness ==
    /\ handler = "sync_all"
    /\ Len(db.snapshots) = 3
    /\ db.snapshots[3].user = sync.user
    /\ db.snapshots[1].user = sync.user
    /\ db.snapshots[2].user # sync.user

\* C19: every CommitActivity row is owned by the owner of the Repository row it
\* refers to.
C19_ActivityOwner ==
    \A a \in db.activities :
        \E r \in db.repositories : r.repo_id = a.repo /\ r.owner = a.owner

===========================================================================
